---- MODULE Spec2Model ----
(***************************************************************************)
(* Buzzer evaluation statistics of qanta/reporting/new_performance.py:     *)
(* the per-question End-of-Pipeline scorer (_get_eop_stats), the           *)
(* per-question Histogram scorer (_get_his_stats) and the two map-reduce   *)
(* drivers (get_eop_stats, get_his_stats) that run a scorer over every     *)
(* question in a worker pool and reduce the records to a summary.          *)
(*                                                                         *)
(* Python lists are modelled as TLA+ sequences; positions, guesser indices *)
(* and buzzer actions keep Python's 0-based numbering, so element i of a   *)
(* list s is s[i + 1].  Python's True/False are the integers 1/0, as they  *)
(* are under sum() and under the comparison with the -1 sentinel.          *)
(***************************************************************************)
EXTENDS Integers, Sequences, FiniteSets, TLC

VARIABLES answers, top_guesses, buzzes, eop_ret, his_ret, job, n_workers,
          pending, running, results, queue, pc, summary

vars == <<answers, top_guesses, buzzes, eop_ret, his_ret, job, n_workers,
          pending, running, results, queue, pc, summary>>

(***************************************************************************)
(* Module constants of new_performance.py                                  *)
(***************************************************************************)
\* the fixed, ordered list of known guessers (two, as in the scenarios)
GUESSERS == <<"A", "B">>

N_GUESSERS == Len(GUESSERS)

MAXINT == 99999

\* HISTO_RATIOS = [0, 0.25, 0.5, 0.75, 1.0], kept as numerators over RATIO_DEN
RATIO_DEN == 4

HISTO_RATIOS == <<0, 1, 2, 3, 4>>

EOP_STAT_KEYS_0 == <<"buzz", "choose_best", "choose_hopeful", "rush", "late",
                     "not_buzzing_when_shouldnt", "reward", "hopeful", "correct">>

EOP_STAT_KEYS_1 == <<"choose_guesser", "best_guesser">>

\* 'acc', 'buzz', then 'acc_<g>' and 'buzz_<g>' for every guesser g; a key is
\* the pair <<prefix, guesser>>, the guesser being "" for the overall keys
HISTO_KEYS_0 == <<  <<"acc", "">>, <<"buzz", "">>  >>
                \o [j \in 1..N_GUESSERS |-> <<"acc", GUESSERS[j]>>]
                \o [j \in 1..N_GUESSERS |-> <<"buzz", GUESSERS[j]>>]

HISTO_KEYS_1 == <<  <<"correct", "">>, <<"wrong_hopeful", "">>,
                    <<"wrong_hopeless", "">>  >>

(***************************************************************************)
(* Bounds of the model                                                     *)
(***************************************************************************)
\* longest guess sequence and longest buzz sequence of a scored question
MaxLen == 3

\* number of questions of a corpus handed to a driver
NumQuestions == 2

\* largest size of the worker pool
MaxWorkers == 2

(***************************************************************************)
(* Python and numpy primitives                                             *)
(***************************************************************************)
Range(s) == {s[i] : i \in 1..Len(s)}

RECURSIVE Sum(_)
Sum(s) == IF s = <<>> THEN 0 ELSE s[1] + Sum(Tail(s))

Max(a, b) == IF a >= b THEN a ELSE b

Min(a, b) == IF a <= b THEN a ELSE b

Bool(b) == IF b THEN 1 ELSE 0

\* s[:n]
Prefix(s, n) == SubSeq(s, 1, Min(n, Len(s)))

\* np.argmax: the index of the first occurrence of the largest entry
ArgMax(v) == CHOOSE i \in 0..(Len(v) - 1) :
                /\ \A j \in 0..(Len(v) - 1) : v[j + 1] <= v[i + 1]
                /\ \A j \in 0..(i - 1) : v[j + 1] < v[i + 1]

\* np.argmin: the index of the first occurrence of the smallest entry
ArgMin(v) == CHOOSE i \in 0..(Len(v) - 1) :
                /\ \A j \in 0..(Len(v) - 1) : v[j + 1] >= v[i + 1]
                /\ \A j \in 0..(i - 1) : v[j + 1] > v[i + 1]

\* g.index(answer)
Index(g, answer) == CHOOSE i \in 0..(Len(g) - 1) :
                       /\ g[i + 1] = answer
                       /\ \A j \in 0..(i - 1) : g[j + 1] # answer

\* values.count(x)
Count(values, x) == Cardinality({i \in 1..Len(values) : values[i] = x})

\* the list `correct` compared with the int MAXINT by ==: a Python list is
\* never equal to an int, so the comparison is the single value False and
\* np.all of it is False, whatever the list holds
ListEqualsInt(lst, x) == FALSE

NpAll(b) == b

\* list(map(list, zip(*rows))): n_guessers * length -> length * n_guessers,
\* cut to the shortest row
Transpose(rows) ==
    LET n == IF rows = <<>> THEN 0
             ELSE CHOOSE m \in {Len(rows[g]) : g \in 1..Len(rows)} :
                     \A g \in 1..Len(rows) : m <= Len(rows[g])
    IN  [i \in 1..n |-> [g \in 1..Len(rows) |-> rows[g][i]]]

(***************************************************************************)
(* _get_eop_stats: the End-of-Pipeline scorer of one question              *)
(***************************************************************************)
\* lst[i] for a Python index i, a negative i counting from the end
PyIndex(lst, i) == IF i < 0 THEN lst[Len(lst) + i + 1] ELSE lst[i + 1]

\* a variant of LengthMismatch that only finds a buzz sequence that is too short
BuzzTooShort(buzz, length) == Len(buzz) < length

\* len(buzz) != length, the test that raises ValueError
LengthMismatch(buzz, length) == Len(buzz) # length

\* stats = {k: -1 for k in EOP_STAT_KEYS_0 + EOP_STAT_KEYS_1}
EopUnset == [k \in Range(EOP_STAT_KEYS_0 \o EOP_STAT_KEYS_1) |-> -1]

\* correct: the first correct position of each guesser, MAXINT if none
FirstCorrect(top, answer) ==
    [g \in 1..Len(top) |-> IF answer \in Range(top[g])
                           THEN Index(top[g], answer) ELSE MAXINT]

\* best_guesser = -1 if np.all(correct == MAXINT) else np.argmin(correct)
BestGuesser(correct) ==
    IF NpAll(ListEqualsInt(correct, MAXINT)) THEN -1 ELSE ArgMin(correct)

\* the scan for the buzzing position and the chosen guesser; buzz[i] past
\* the end of buzz is an IndexError
BuzzScan(buzz, length) ==
    LET Stops(i) == i >= Len(buzz) \/ ArgMax(buzz[i + 1]) < Len(GUESSERS)
        stops == {i \in 0..(length - 1) : Stops(i)}
        first == CHOOSE i \in stops : \A j \in stops : i <= j
    IN  IF stops = {} THEN [exc |-> "none", pos |-> -1, chosen |-> -1]
        ELSE IF first >= Len(buzz)
             THEN [exc |-> "IndexError", pos |-> -1, chosen |-> -1]
             ELSE [exc |-> "none", pos |-> first,
                   chosen |-> ArgMax(buzz[first + 1])]

\* a variant of NotBuzzingWhenShouldnt that sets the flag on every silence
SilenceFlagAlways(hopeful) == 1

\* a variant of NotBuzzingWhenShouldnt without the `not`
SilenceFlagOfHopeful(hopeful) == Bool(hopeful = 1)

\* stats['not_buzzing_when_shouldnt'] = int(not hopeful)
NotBuzzingWhenShouldnt(hopeful) == Bool(hopeful = 0)

\* a variant of Reward that wants the buzz strictly after the first-correct
\* position
RewardStrictlyAfter(pos, first_correct) == IF pos > first_correct THEN 10 ELSE -5

\* stats['reward'] = 10 if pos >= correct[chosen] else -5
Reward(pos, first_correct) == IF pos >= first_correct THEN 10 ELSE -5

\* stats['late'] = max(0, pos - correct[best_guesser])
Late(pos, best_correct) == Max(0, pos - best_correct)

\* a variant of Rush with the operands of late
RushAsLate(pos, best_correct) == Max(0, pos - best_correct)

\* stats['rush'] = max(0, correct[best_guesser] - pos)
Rush(pos, best_correct) == Max(0, best_correct - pos)

\* the body of _get_eop_stats after the length check
EopStats(buzz, answer, top, length) ==
    LET correct == FirstCorrect(top, answer)
        best_guesser == BestGuesser(correct)
        n_correct == Cardinality({g \in 1..Len(correct) : correct[g] # MAXINT})
        hopeful == Bool(n_correct > 0)
        scan == BuzzScan(buzz, length)
        pos == scan.pos
        chosen == scan.chosen
        base == [EopUnset EXCEPT !["best_guesser"] = best_guesser,
                                 !["correct"] = n_correct,
                                 !["hopeful"] = hopeful]
        silent == [base EXCEPT !["buzz"] = 0,
                               !["reward"] = 0,
                               !["not_buzzing_when_shouldnt"] =
                                    NotBuzzingWhenShouldnt(hopeful)]
        buzzed == [base EXCEPT !["buzz"] = 1,
                               !["choose_guesser"] = chosen,
                               !["choose_hopeful"] =
                                    Bool(PyIndex(correct, chosen) # MAXINT),
                               !["reward"] =
                                    Reward(pos, PyIndex(correct, chosen))]
        timed == [buzzed EXCEPT !["choose_best"] = Bool(chosen = best_guesser),
                                !["late"] =
                                    Late(pos, PyIndex(correct, best_guesser)),
                                !["rush"] =
                                    Rush(pos, PyIndex(correct, best_guesser))]
    IN  IF scan.exc # "none" THEN [exc |-> scan.exc, stats |-> EopUnset, puts |-> 0]
        ELSE [exc |-> "none",
              stats |-> IF pos = -1 THEN silent
                        ELSE IF hopeful = 1 THEN timed ELSE buzzed,
              puts |-> 1]

\* _get_eop_stats: ValueError before any record when the lengths differ;
\* puts is the number of queue.put(qnum) calls made
GetEopStats(buzz, answer, top) ==
    LET length == Len(top[1])
    IN  IF LengthMismatch(buzz, length)
        THEN [exc |-> "ValueError", stats |-> EopUnset, puts |-> 0]
        ELSE EopStats(buzz, answer, top, length)

(***************************************************************************)
(* _get_his_stats: the Histogram scorer of one question                    *)
(***************************************************************************)
HistoKeys == Range(HISTO_KEYS_0 \o HISTO_KEYS_1)

\* stats = {k: [-1 for _ in HISTO_RATIOS] for k in HISTO_KEYS_0 + HISTO_KEYS_1}
HisUnset == [k \in HistoKeys |-> [i \in 1..Len(HISTO_RATIOS) |-> -1]]

\* enumerate(GUESSERS): the index j of guesser g
GuesserIndex(g) == CHOOSE j \in 0..(N_GUESSERS - 1) : GUESSERS[j + 1] = g

\* a variant of CheckpointPos that stops one position short
CheckpointPosShort(length, r) == ((length - 1) * r) \div RATIO_DEN

\* pos = int(length * r); the ratios are multiples of 1/4, whose products
\* with an int are exact, and int() cuts the fraction off
CheckpointPos(length, r) == (length * r) \div RATIO_DEN

\* guesser_correct: length * n_guessers, 1 where the guess is the answer
GuesserCorrect(top, answer) ==
    LET rows == Transpose(top)
    IN  [i \in 1..Len(rows) |->
            [g \in 1..Len(rows[i]) |-> Bool(rows[i][g] = answer)]]

\* buzzer_correct: per position, 1 when the buzzer's action is a guesser that
\* is right at that position
BuzzerCorrect(buzz, guesser_correct) ==
    [i \in 1..Len(buzz) |->
        IF ArgMax(buzz[i]) < N_GUESSERS
           /\ guesser_correct[i][ArgMax(buzz[i]) + 1] = 1
        THEN 1 ELSE 0]

\* guesser_correct[i] past the end of guesser_correct is an IndexError
BuzzerCorrectRaises(buzz, guesser_correct) ==
    \E i \in 1..Len(buzz) :
        ArgMax(buzz[i]) < N_GUESSERS /\ i > Len(guesser_correct)

\* stats['correct'][i] = int(buz_cor > 0)
Correct(buz_cor) == Bool(buz_cor > 0)

\* stats['wrong_hopeless'][i] = int(buz_cor == 0 and cor == 0)
WrongHopeless(buz_cor, cor) == Bool(buz_cor = 0 /\ cor = 0)

\* a variant of WrongHopeful that forgets the buzzer
WrongHopefulAnyBuzz(buz_cor, cor) == Bool(cor > 0)

\* stats['wrong_hopeful'][i] = int(buz_cor == 0 and cor > 0)
WrongHopeful(buz_cor, cor) == Bool(buz_cor = 0 /\ cor > 0)

\* cor after the first statement of a pass: every guesser's right guesses
\* within the prefix
CorAll(gpre) == Sum([i \in 1..Len(gpre) |-> Sum(gpre[i])])

\* cor of guesser j within the prefix
CorOf(gpre, j) == Sum([i \in 1..Len(gpre) |-> gpre[i][j + 1]])

\* buz: the prefix positions whose action is a guesser
BuzAll(bpre) == Cardinality({i \in 1..Len(bpre) : ArgMax(bpre[i]) < N_GUESSERS})

\* buz of guesser j within the prefix
BuzOf(bpre, j) == Cardinality({i \in 1..Len(bpre) : ArgMax(bpre[i]) = j})

\* cor as the loop over GUESSERS leaves it for the three outcome keys: the
\* count of the last guesser of GUESSERS (the overall count were there none)
CorAfterLoop(gpre) ==
    IF N_GUESSERS > 0 THEN CorOf(gpre, N_GUESSERS - 1) ELSE CorAll(gpre)

\* one pass of the loop over HISTO_RATIOS: stats[key][i] for the checkpoint
\* whose prefix is [0, pos)
HisCheckpoint(key, buzz, guesser_correct, buzzer_correct, pos) ==
    LET gpre == Prefix(guesser_correct, pos)
        bpre == Prefix(buzz, pos)
        buz_cor == Sum(Prefix(buzzer_correct, pos))
    IN  CASE key = <<"acc", "">> -> Bool(CorAll(gpre) > 0)
          [] key = <<"buzz", "">> -> Bool(BuzAll(bpre) > 0)
          [] key = <<"correct", "">> -> Correct(buz_cor)
          [] key = <<"wrong_hopeless", "">> ->
                WrongHopeless(buz_cor, CorAfterLoop(gpre))
          [] key = <<"wrong_hopeful", "">> ->
                WrongHopeful(buz_cor, CorAfterLoop(gpre))
          [] key[1] = "acc" /\ key[2] # "" ->
                Bool(CorOf(gpre, GuesserIndex(key[2])) > 0)
          [] key[1] = "buzz" /\ key[2] # "" ->
                Bool(BuzOf(bpre, GuesserIndex(key[2])) > 0)

\* the assert at the end of a pass
AssertHolds(buzz, guesser_correct, buzzer_correct, pos) ==
    HisCheckpoint(<<"correct", "">>, buzz, guesser_correct, buzzer_correct, pos)
    + HisCheckpoint(<<"wrong_hopeless", "">>, buzz, guesser_correct,
                    buzzer_correct, pos)
    + HisCheckpoint(<<"wrong_hopeful", "">>, buzz, guesser_correct,
                    buzzer_correct, pos) = 1

\* the body of _get_his_stats after the length check; a failed assert leaves
\* with AssertionError after the passes (and the queue.put calls) before it
HisStats(buzz, answer, top, length) ==
    LET guesser_correct == GuesserCorrect(top, answer)
        buzzer_correct == BuzzerCorrect(buzz, guesser_correct)
        PosAt(i) == CheckpointPos(length, HISTO_RATIOS[i])
        failed == {i \in 1..Len(HISTO_RATIOS) :
                      ~AssertHolds(buzz, guesser_correct, buzzer_correct,
                                   PosAt(i))}
        first_failed == CHOOSE i \in failed : \A j \in failed : i <= j
    IN  IF BuzzerCorrectRaises(buzz, guesser_correct)
        THEN [exc |-> "IndexError", stats |-> HisUnset, puts |-> 0]
        ELSE IF failed # {}
        THEN [exc |-> "AssertionError", stats |-> HisUnset,
              puts |-> first_failed - 1]
        ELSE [exc |-> "none",
              stats |-> [key \in HistoKeys |->
                            [i \in 1..Len(HISTO_RATIOS) |->
                                HisCheckpoint(key, buzz, guesser_correct,
                                              buzzer_correct, PosAt(i))]],
              puts |-> Len(HISTO_RATIOS)]

\* _get_his_stats
GetHisStats(buzz, answer, top) ==
    LET length == Len(top[1])
    IN  IF LengthMismatch(buzz, length)
        THEN [exc |-> "ValueError", stats |-> HisUnset, puts |-> 0]
        ELSE HisStats(buzz, answer, top, length)

(***************************************************************************)
(* The reduction of get_eop_stats and get_his_stats                        *)
(***************************************************************************)
RECURSIVE Gcd(_, _)
Gcd(a, b) == IF b = 0 THEN a ELSE Gcd(b, a % b)

Abs(a) == IF a < 0 THEN -a ELSE a

\* the number num / den, den > 0, as a fraction in lowest terms
Fraction(num, den) ==
    LET g == Gcd(Abs(num), den)
    IN  [num |-> num \div g, den |-> den \div g]

\* a variant of Mean that averages as it goes: value = (value + v) / 2 for
\* every v in turn, from 0
RECURSIVE RunningMean(_)
RunningMean(values) ==
    IF values = <<>> THEN Fraction(0, 1)
    ELSE LET m == RunningMean(SubSeq(values, 1, Len(values) - 1))
         IN  Fraction(m.num + values[Len(values)] * m.den, 2 * m.den)

\* sum(values) / len(values) if len(values) > 0 else 0
Mean(values) ==
    IF Len(values) > 0 THEN Fraction(Sum(values), Len(values))
    ELSE Fraction(0, 1)

\* {k: v for k, v in pairs}: the keys in the order they first arrive, each
\* with the value that arrived last
RECURSIVE DictOf(_)
DictOf(pairs) ==
    IF pairs = <<>> THEN <<>>
    ELSE LET d == DictOf(SubSeq(pairs, 1, Len(pairs) - 1))
             last == pairs[Len(pairs)]
             at == {i \in 1..Len(d) : d[i][1] = last[1]}
         IN  IF at = {} THEN Append(d, last)
             ELSE [i \in 1..Len(d) |-> IF i \in at THEN last ELSE d[i]]

NotUnset(v) == v # -1

\* _eop_stats[key]: stat[key] of every question, in the dict's order, the
\* -1 entries left out
EopValues(d, key) ==
    SelectSeq([i \in 1..Len(d) |-> d[i][2][key]], NotUnset)

\* the CorpusSummary: a mean per key of EOP_STAT_KEYS_0 and, per key of
\* EOP_STAT_KEYS_1, values.count(i) for every guesser i
EopSummary(pairs) ==
    LET d == DictOf(pairs)
    IN  [key \in Range(EOP_STAT_KEYS_0 \o EOP_STAT_KEYS_1) |->
            IF key \in Range(EOP_STAT_KEYS_0)
            THEN Mean(EopValues(d, key))
            ELSE [g \in Range(GUESSERS) |->
                     Count(EopValues(d, key), GuesserIndex(g))]]

\* _his_stats[key][i]: stats[key][i] of every question, -1 left out
HisValues(d, key, i) ==
    SelectSeq([n \in 1..Len(d) |-> d[n][2][key][i]], NotUnset)

\* the HistogramSummary: a mean per key and checkpoint
HisSummary(pairs) ==
    LET d == DictOf(pairs)
    IN  [key \in HistoKeys |->
            [i \in 1..Len(HISTO_RATIOS) |-> Mean(HisValues(d, key, i))]]

(***************************************************************************)
(* Inputs                                                                  *)
(***************************************************************************)
\* the pages a guesser may name; a missing guess (None) is, like "b" against
\* the gold answer "a", a value that == and `in` never find equal to it
Pages == {"a", "b"}

\* the gold answers of scored questions
GoldAnswers == {"a"}

\* an action-score vector with its one maximum at action k (k = N_GUESSERS
\* is "do not buzz")
OneHot(k) == [i \in 1..(N_GUESSERS + 1) |-> IF i = k + 1 THEN 1 ELSE 0]

\* the last guesser and "do not buzz" tied for the maximum
Tied == [i \in 1..(N_GUESSERS + 1) |-> IF i >= N_GUESSERS THEN 1 ELSE 0]

Wait == OneHot(N_GUESSERS)

\* the score vectors of a position: one per action, the last guesser's being
\* the tied one
ScoreVectors == {OneHot(k) : k \in 0..(N_GUESSERS - 2)} \cup {Tied, Wait}

SeqsUpTo(S, n) == UNION {[1..m -> S] : m \in 0..n}

\* n_guessers * length tables of top guesses, length <= MaxLen
Tables == UNION {[1..N_GUESSERS -> [1..m -> Pages]] : m \in 0..MaxLen}

\* buzz sequences of up to MaxLen positions
BuzzSeqs == SeqsUpTo(ScoreVectors, MaxLen)

\* the table whose first guesser has the row `first` and whose other
\* guessers all have the row `rest`
Table(first, rest) == [g \in 1..N_GUESSERS |-> IF g = 1 THEN first ELSE rest]

\* the questions a corpus is drawn from: the first guesser right only at
\* position 2 and chosen at position 1; the same with a silent buzzer; a
\* buzz sequence of 3 against guesses of 2; nobody ever right and the last
\* guesser chosen at once; the last guesser right first, the first guesser
\* right and chosen later
Catalogue ==
    { [answer |-> "a", top |-> Table(<<"b", "b", "a">>, <<"b", "b", "b">>),
       buzz |-> <<Wait, OneHot(0), Wait>>],
      [answer |-> "a", top |-> Table(<<"b", "b", "a">>, <<"b", "b", "b">>),
       buzz |-> <<Wait, Wait, Wait>>],
      [answer |-> "a", top |-> Table(<<"a", "b">>, <<"b", "b">>),
       buzz |-> <<Wait, OneHot(0), Wait>>],
      [answer |-> "b", top |-> Table(<<"a">>, <<"a">>),
       buzz |-> <<OneHot(N_GUESSERS - 1)>>],
      [answer |-> "a", top |-> Table(<<"b", "a">>, <<"a", "b">>),
       buzz |-> <<Wait, OneHot(0)>>] }

Qnums == 1..NumQuestions

(***************************************************************************)
(* State                                                                   *)
(***************************************************************************)
\* what a direct call of a scorer has left: nothing yet, the returned
\* (qnum, stats), or the exception raised
NotCalled(unset) == [called |-> FALSE, qnum |-> 0, exc |-> "none", stats |-> unset]

Returned(q, r) == [called |-> TRUE, qnum |-> q, exc |-> r.exc, stats |-> r.stats]

\* queue after n more queue.put(qnum)
Put(q, qnum, n) == q \o [i \in 1..n |-> qnum]

(***************************************************************************)
(* One question scored by direct calls of the two scorers                  *)
(***************************************************************************)
InitScorer ==
    /\ \E a \in GoldAnswers : answers = [q \in {1} |-> a]
    /\ \E t \in Tables : top_guesses = [q \in {1} |-> t]
    /\ \E b \in BuzzSeqs : buzzes = [q \in {1} |-> b]
    /\ eop_ret = NotCalled(EopUnset)
    /\ his_ret = NotCalled(HisUnset)
    /\ job = "none"
    /\ n_workers = 0
    /\ pending = {}
    /\ running = {}
    /\ results = <<>>
    /\ queue = <<>>
    /\ pc = "scorer"
    /\ summary = <<>>

\* _get_eop_stats(buzzes, answers, ((qnum, top_guesses[qnum]), queue))
CallEop(q) ==
    /\ pc = "scorer"
    /\ ~eop_ret.called
    /\ LET r == GetEopStats(buzzes[q], answers[q], top_guesses[q])
       IN  /\ eop_ret' = Returned(q, r)
           /\ queue' = Put(queue, q, r.puts)
    /\ UNCHANGED <<answers, top_guesses, buzzes, his_ret, job, n_workers,
                   pending, running, results, pc, summary>>

\* _get_his_stats(buzzes, answers, ((qnum, top_guesses[qnum]), queue)), called
\* after _get_eop_stats as generate calls get_his_stats after get_eop_stats;
\* neither scorer reads what the other leaves
CallHis(q) ==
    /\ pc = "scorer"
    /\ eop_ret.called
    /\ ~his_ret.called
    /\ LET r == GetHisStats(buzzes[q], answers[q], top_guesses[q])
       IN  /\ his_ret' = Returned(q, r)
           /\ queue' = Put(queue, q, r.puts)
    /\ UNCHANGED <<answers, top_guesses, buzzes, eop_ret, job, n_workers,
                   pending, running, results, pc, summary>>

NextScorer ==
    \/ \E q \in DOMAIN top_guesses : CallEop(q)
    \/ \E q \in DOMAIN top_guesses : CallHis(q)

SpecScorer == InitScorer /\ [][NextScorer]_vars

(***************************************************************************)
(* get_eop_stats and get_his_stats: a corpus scored by a pool of workers   *)
(* and reduced.  _multiprocess hands every (qnum, top_guesses) item to a   *)
(* worker with the progress queue, collects the (qnum, stats) pairs the    *)
(* workers return, in the order the pool delivers them, and lets a         *)
(* worker's exception end the call.                                        *)
(***************************************************************************)
Init ==
    /\ \E c \in [Qnums -> Catalogue] :
          /\ answers = [q \in Qnums |-> c[q].answer]
          /\ top_guesses = [q \in Qnums |-> c[q].top]
          /\ buzzes = [q \in Qnums |-> c[q].buzz]
    /\ job \in {"eop", "his"}
    /\ n_workers \in 1..MaxWorkers
    /\ pending = Qnums
    /\ running = {}
    /\ results = <<>>
    /\ queue = <<>>
    /\ pc = "map"
    /\ summary = <<>>
    /\ eop_ret = NotCalled(EopUnset)
    /\ his_ret = NotCalled(HisUnset)

\* the pool gives the next item of inputs to a free worker
Dispatch(q) ==
    /\ pc = "map"
    /\ q \in pending
    /\ Cardinality(running) < n_workers
    /\ pending' = pending \ {q}
    /\ running' = running \cup {q}
    /\ UNCHANGED <<answers, top_guesses, buzzes, eop_ret, his_ret, job,
                   n_workers, results, queue, pc, summary>>

\* a worker's call ends: its pair joins the collected results, or its
\* exception ends the driver's call before any reduction
WorkerDone(q, r) ==
    /\ running' = running \ {q}
    /\ queue' = Put(queue, q, r.puts)
    /\ \/ /\ r.exc = "none"
          /\ results' = Append(results, <<q, r.stats>>)
          /\ pc' = pc
       \/ /\ r.exc # "none"
          /\ results' = results
          /\ pc' = r.exc
    /\ UNCHANGED <<answers, top_guesses, buzzes, eop_ret, his_ret, job,
                   n_workers, pending, summary>>

\* worker = partial(_get_eop_stats, buzzes, answers) on one item
EopWorker(q) ==
    /\ pc = "map"
    /\ job = "eop"
    /\ q \in running
    /\ WorkerDone(q, GetEopStats(buzzes[q], answers[q], top_guesses[q]))

\* worker = partial(_get_his_stats, buzzes, answers) on one item
HisWorker(q) ==
    /\ pc = "map"
    /\ job = "his"
    /\ q \in running
    /\ WorkerDone(q, GetHisStats(buzzes[q], answers[q], top_guesses[q]))

\* get_eop_stats after _multiprocess has returned every pair
ReduceEop ==
    /\ pc = "map"
    /\ job = "eop"
    /\ pending = {}
    /\ running = {}
    /\ summary' = <<EopSummary(results)>>
    /\ pc' = "done"
    /\ UNCHANGED <<answers, top_guesses, buzzes, eop_ret, his_ret, job,
                   n_workers, pending, running, results, queue>>

\* get_his_stats after _multiprocess has returned every pair
ReduceHis ==
    /\ pc = "map"
    /\ job = "his"
    /\ pending = {}
    /\ running = {}
    /\ summary' = <<HisSummary(results)>>
    /\ pc' = "done"
    /\ UNCHANGED <<answers, top_guesses, buzzes, eop_ret, his_ret, job,
                   n_workers, pending, running, results, queue>>

Next ==
    \/ \E q \in Qnums : Dispatch(q)
    \/ \E q \in Qnums : EopWorker(q)
    \/ \E q \in Qnums : HisWorker(q)
    \/ ReduceEop
    \/ ReduceHis

Spec == Init /\ [][Next]_vars

(***************************************************************************)
(* The notions the properties are stated in, read off the inputs: guesser  *)
(* g and position i are 0-based                                            *)
(***************************************************************************)
Guessers == 0..(N_GUESSERS - 1)

Length(q) == Len(top_guesses[q][1])

Positions(q) == 0..(Length(q) - 1)

\* guesser g's top candidate at position i is the gold answer
RightAt(q, g, i) == top_guesses[q][g + 1][i + 1] = answers[q]

EverRight(q, g) == \E i \in Positions(q) : RightAt(q, g, i)

\* the first-correct position of a guesser that is ever right
FirstRightPos(q, g) ==
    CHOOSE i \in Positions(q) :
        RightAt(q, g, i) /\ \A j \in 0..(i - 1) : ~RightAt(q, g, j)

IsHopeful(q) == \E g \in Guessers : EverRight(q, g)

\* the buzzer's action at position i: the first-occurring maximal entry
ActionAt(q, i) == ArgMax(buzzes[q][i + 1])

BuzzesAt(q, i) == ActionAt(q, i) < N_GUESSERS

EverBuzzes(q) == \E i \in 0..(Len(buzzes[q]) - 1) : BuzzesAt(q, i)

FirstBuzzPos(q) ==
    CHOOSE i \in 0..(Len(buzzes[q]) - 1) :
        BuzzesAt(q, i) /\ \A j \in 0..(i - 1) : ~BuzzesAt(q, j)

LengthsDiffer(q) == Len(buzzes[q]) # Length(q)

\* the scorer was called on q and returned a record
EopOk(q) == eop_ret.called /\ eop_ret.qnum = q /\ eop_ret.exc = "none"

HisOk(q) == his_ret.called /\ his_ret.qnum = q /\ his_ret.exc = "none"

His(key, k) == his_ret.stats[<<key, "">>][k]

\* the prefix [0, floor(length * r)) of checkpoint k
PrefixOf(q, k) == 0..(((Length(q) * HISTO_RATIOS[k]) \div RATIO_DEN) - 1)

\* the buzzer chose, at some position of the set, a guesser right there
BuzzerRightIn(q, prefix) ==
    \E i \in prefix : BuzzesAt(q, i) /\ RightAt(q, ActionAt(q, i), i)

SomeGuesserRightIn(q, prefix) ==
    \E i \in prefix : \E g \in Guessers : RightAt(q, g, i)

\* the scenario's question: the first guesser right only at position 2, no
\* other guesser ever right, over 3 positions
ScenarioGuesses(q) ==
    /\ answers[q] = "a"
    /\ top_guesses[q] = Table(<<"b", "b", "a">>, <<"b", "b", "b">>)

(***************************************************************************)
(* Properties                                                              *)
(***************************************************************************)
\* C1: at every checkpoint of the Histogram scorer, wrong_hopeful is 1
\* exactly when the buzzer was never right in the prefix but some guesser,
\* any of them, was right at some prefix position, and wrong_hopeless is 1
\* exactly when the buzzer was never right and no guesser was right in the
\* prefix.
C1_OutcomeByAnyGuesser ==
    \A q \in DOMAIN top_guesses : HisOk(q) =>
        \A k \in 1..Len(HISTO_RATIOS) :
            /\ His("wrong_hopeful", k) = 1 <=>
                  (~BuzzerRightIn(q, PrefixOf(q, k))
                   /\ SomeGuesserRightIn(q, PrefixOf(q, k)))
            /\ His("wrong_hopeless", k) = 1 <=>
                  (~BuzzerRightIn(q, PrefixOf(q, k))
                   /\ ~SomeGuesserRightIn(q, PrefixOf(q, k)))

\* C2: best_guesser of the EOP scorer is a guesser whose first-correct
\* position is at most that of every guesser that is ever right; when no
\* guesser is ever right, hopeful is false and best_guesser is the unset
\* value -1, not the index of a guesser.
C2_BestGuesserOrNone ==
    \A q \in DOMAIN top_guesses : EopOk(q) =>
        /\ IsHopeful(q) =>
              /\ eop_ret.stats.best_guesser \in Guessers
              /\ EverRight(q, eop_ret.stats.best_guesser)
              /\ \A g \in Guessers : EverRight(q, g) =>
                    FirstRightPos(q, eop_ret.stats.best_guesser)
                        <= FirstRightPos(q, g)
        /\ ~IsHopeful(q) =>
              /\ eop_ret.stats.hopeful = 0
              /\ eop_ret.stats.best_guesser = -1

\* C3: whenever the lengths match, the Histogram scorer returns (its assert
\* does not fail) and at every checkpoint correct, wrong_hopeful and
\* wrong_hopeless sum to exactly 1.
C3_OutcomesSumToOne ==
    \A q \in DOMAIN top_guesses :
        (his_ret.called /\ his_ret.qnum = q /\ ~LengthsDiffer(q)) =>
            /\ his_ret.exc = "none"
            /\ \A k \in 1..Len(HISTO_RATIOS) :
                  /\ {His("correct", k), His("wrong_hopeful", k),
                      His("wrong_hopeless", k)} \subseteq {0, 1}
                  /\ His("correct", k) + His("wrong_hopeful", k)
                        + His("wrong_hopeless", k) = 1

\* a question of MaxLen positions that is wrong_hopeless on the empty
\* prefix, wrong_hopeful half way and correct at the end
C3_Witness ==
    /\ \E q \in DOMAIN top_guesses :
          /\ HisOk(q)
          /\ Length(q) = MaxLen
          /\ His("wrong_hopeless", 1) = 1
          /\ His("wrong_hopeful", 3) = 1
          /\ His("correct", 5) = 1

\* C4: the reward of the EOP scorer is one of 0, -5, +10; it is 0 exactly
\* when no position's first maximal entry is a guesser; otherwise, with p
\* the first buzz position and g the guesser chosen there, it is +10 when g
\* is right at or before p and -5 when not (also when g is never right).
C4_Reward ==
    \A q \in DOMAIN top_guesses : EopOk(q) =>
        /\ eop_ret.stats.reward \in {0, -5, 10}
        /\ eop_ret.stats.reward = 0 <=> ~EverBuzzes(q)
        /\ EverBuzzes(q) =>
              eop_ret.stats.reward =
                 IF /\ EverRight(q, ActionAt(q, FirstBuzzPos(q)))
                    /\ FirstBuzzPos(q)
                          >= FirstRightPos(q, ActionAt(q, FirstBuzzPos(q)))
                 THEN 10 ELSE -5

\* a buzz at the very position at which the chosen guesser is first right,
\* after a silent position
C4_Witness ==
    \E q \in DOMAIN top_guesses :
        /\ EopOk(q)
        /\ EverBuzzes(q)
        /\ FirstBuzzPos(q) > 0
        /\ EverRight(q, ActionAt(q, FirstBuzzPos(q)))
        /\ FirstBuzzPos(q) = FirstRightPos(q, ActionAt(q, FirstBuzzPos(q)))
        /\ eop_ret.stats.reward = 10

\* C5: when the buzzer never buzzes, not_buzzing_when_shouldnt is true if
\* the question is not hopeful and false if it is hopeful.
C5_AppropriateSilence ==
    \A q \in DOMAIN top_guesses : (EopOk(q) /\ ~EverBuzzes(q)) =>
        /\ ~IsHopeful(q) => eop_ret.stats.not_buzzing_when_shouldnt = 1
        /\ IsHopeful(q) => eop_ret.stats.not_buzzing_when_shouldnt = 0

\* a silent buzzer on a question of MaxLen positions nobody is right on
C5_Witness ==
    \E q \in DOMAIN top_guesses :
        /\ EopOk(q)
        /\ Length(q) = MaxLen
        /\ ~EverBuzzes(q)
        /\ ~IsHopeful(q)
        /\ eop_ret.stats.not_buzzing_when_shouldnt = 1

\* C6 as stated: on a hopeful question with a buzzer that is silent
\* throughout, the record has buzz = 0, reward = 0 and
\* not_buzzing_when_shouldnt = 1.
C6_SilentHopefulFlagSet ==
    \A q \in DOMAIN top_guesses :
        (EopOk(q) /\ IsHopeful(q) /\ ~EverBuzzes(q)) =>
            /\ eop_ret.stats.buzz = 0
            /\ eop_ret.stats.reward = 0
            /\ eop_ret.stats.not_buzzing_when_shouldnt = 1

\* C6 as amended: on a hopeful question with a buzzer that is silent
\* throughout, the record has buzz = 0, reward = 0 and
\* not_buzzing_when_shouldnt = 0, every stat of a buzz being left unset.
C6_SilentHopefulFlagClear ==
    \A q \in DOMAIN top_guesses :
        (EopOk(q) /\ IsHopeful(q) /\ ~EverBuzzes(q)) =>
            /\ eop_ret.stats.buzz = 0
            /\ eop_ret.stats.reward = 0
            /\ eop_ret.stats.not_buzzing_when_shouldnt = 0
            /\ eop_ret.stats.hopeful = 1
            /\ eop_ret.stats.choose_guesser = -1

\* the scenario: the first guesser right only at position 2, the others
\* never, the buzzer silent at all 3 positions
C6_Witness ==
    \E q \in DOMAIN top_guesses :
        /\ EopOk(q)
        /\ ScenarioGuesses(q)
        /\ buzzes[q] = <<Wait, Wait, Wait>>
        /\ eop_ret.stats.not_buzzing_when_shouldnt = 0

\* C7: for a question of matching lengths, the Histogram scorer's acc at
\* checkpoint 1.0 is the EOP scorer's hopeful flag and its buzz at
\* checkpoint 1.0 is the EOP scorer's buzz flag.
C7_FullCheckpointAgreesWithEop ==
    \A q \in DOMAIN top_guesses : (EopOk(q) /\ HisOk(q)) =>
        /\ His("acc", Len(HISTO_RATIOS)) = eop_ret.stats.hopeful
        /\ His("buzz", Len(HISTO_RATIOS)) = eop_ret.stats.buzz
        /\ eop_ret.stats.hopeful = Bool(IsHopeful(q))
        /\ eop_ret.stats.buzz = Bool(EverBuzzes(q))

\* the only right guess and the only buzz are at the last position
C7_Witness ==
    \E q \in DOMAIN top_guesses :
        /\ EopOk(q)
        /\ HisOk(q)
        /\ Length(q) = MaxLen
        /\ His("acc", Len(HISTO_RATIOS) - 1) = 0
        /\ His("buzz", Len(HISTO_RATIOS) - 1) = 0
        /\ His("acc", Len(HISTO_RATIOS)) = 1
        /\ His("buzz", Len(HISTO_RATIOS)) = 1

\* C10: when the buzzer first buzzes at p on a hopeful question whose best
\* guesser is first right at b, choose_best says whether the chosen guesser
\* is best_guesser, late = max(0, p - b) and rush = max(0, b - p), so at
\* most one of late and rush is nonzero and both are zero exactly when
\* p = b; in the scenario (first guesser right only at position 2, the
\* others never, first guesser chosen at position 1) the record has
\* hopeful, best_guesser the first guesser, reward -5, rush 1, late 0 and
\* choose_best.
C10_ChooseBestLateRush ==
    \A q \in DOMAIN top_guesses :
        (EopOk(q) /\ EverBuzzes(q) /\ IsHopeful(q)) =>
            LET st == eop_ret.stats
                p == FirstBuzzPos(q)
                b == CHOOSE i \in Positions(q) :
                        /\ \E g \in Guessers : EverRight(q, g)
                                               /\ FirstRightPos(q, g) = i
                        /\ \A g \in Guessers : EverRight(q, g) =>
                                               i <= FirstRightPos(q, g)
            IN  /\ st.best_guesser \in Guessers
                /\ EverRight(q, st.best_guesser)
                /\ FirstRightPos(q, st.best_guesser) = b
                /\ st.choose_best = Bool(ActionAt(q, p) = st.best_guesser)
                /\ st.late = (IF p - b > 0 THEN p - b ELSE 0)
                /\ st.rush = (IF b - p > 0 THEN b - p ELSE 0)
                /\ st.late = 0 \/ st.rush = 0
                /\ (st.late = 0 /\ st.rush = 0) <=> p = b
                /\ (ScenarioGuesses(q) /\ buzzes[q] = <<Wait, OneHot(0), Wait>>)
                      => /\ st.hopeful = 1
                         /\ st.best_guesser = 0
                         /\ st.reward = -5
                         /\ st.rush = 1
                         /\ st.late = 0
                         /\ st.choose_best = 1

\* the scenario scored
C10_Witness ==
    \E q \in DOMAIN top_guesses :
        /\ EopOk(q)
        /\ ScenarioGuesses(q)
        /\ buzzes[q] = <<Wait, OneHot(0), Wait>>
        /\ eop_ret.stats.rush = 1

\* the pairs of a run that delivers every question in the order of the ids
EopInOrder ==
    [q \in Qnums |->
        <<q, GetEopStats(buzzes[q], answers[q], top_guesses[q]).stats>>]

HisInOrder ==
    [q \in Qnums |->
        <<q, GetHisStats(buzzes[q], answers[q], top_guesses[q]).stats>>]

\* C8: whatever the order in which the workers deliver their pairs and
\* whatever the number of workers, the summary a driver produces is the one
\* of the in-order run: every question is reduced exactly once and no mean
\* or count depends on the interleaving.
C8_SummaryIndependentOfDelivery ==
    pc = "done" =>
        /\ Len(results) = NumQuestions
        /\ {results[n][1] : n \in 1..Len(results)} = Qnums
        /\ job = "eop" => summary = <<EopSummary(EopInOrder)>>
        /\ job = "his" => summary = <<HisSummary(HisInOrder)>>

\* a summary made from pairs that arrived against the order of the ids, from
\* two workers, the first pair differing from the last
C8_Witness ==
    /\ pc = "done"
    /\ n_workers > 1
    /\ results[1][1] > results[Len(results)][1]
    /\ results[1][2] # results[Len(results)][2]

\* C9: a question whose buzz sequence and guess sequence differ in length
\* makes the worker of either driver, the EOP scorer or the Histogram
\* scorer, raise ValueError before any record: once a worker has run it the
\* driver has ended with ValueError, no pair of it is ever collected, and a
\* driver whose corpus holds it never produces a summary.
C9_MismatchNeverAggregated ==
    \A q \in DOMAIN top_guesses : LengthsDiffer(q) =>
        /\ \A n \in 1..Len(results) : results[n][1] # q
        /\ summary = <<>>
        /\ pc # "done"
        /\ q \notin pending \cup running => pc = "ValueError"

\* the Histogram driver ended by the ValueError of the question with 3
\* buzz positions and 2 guess positions, after another question's pair had
\* been collected
C9_Witness ==
    /\ pc = "ValueError"
    /\ job = "his"
    /\ Len(results) > 0
    /\ \E q \in Qnums : /\ Len(buzzes[q]) = 3
                        /\ Length(q) = 2
                        /\ q \notin pending \cup running

====
